---- MODULE Spec2Model ----
(***************************************************************************)
(* Pair-label evaluation of a scored similarity output against a gold      *)
(* standard: scripts/evaluate_small_experiment.py and                      *)
(* scripts/analyze_results.py.                                             *)
(*                                                                         *)
(* Strings are sequences of one-character strings, ordered by code point   *)
(* as Python orders them.  Scores and thresholds are counted in units of   *)
(* 1e-6 (so 0.01 is 10000 and the placeholder 1e-6 is 1); a quotient is a  *)
(* pair <<numerator, denominator>> with a positive denominator.            *)
(***************************************************************************)
EXTENDS Integers, Sequences, FiniteSets

VARIABLES script, pc, gold, system, merged, table_rows, curve, best,
          cutoffs, buckets, report, ka, kb, kc, kd, key1, key2

vars == <<script, pc, gold, system, merged, table_rows, curve, best,
          cutoffs, buckets, report, ka, kb, kc, kd, key1, key2>>

pipeVars == <<gold, system, merged, table_rows, curve, best, cutoffs,
              buckets, report>>

keyVars == <<ka, kb, kc, kd, key1, key2>>

(* ------------------------------ bounds -------------------------------- *)
MaxLen == 2
MaxPos == 2
MaxNeg == 4
MaxSys == 2

(* ------------------------------ strings ------------------------------- *)
\* Code points of the characters the model uses.
ord(ch) ==
  CASE ch = " " -> 32
    [] ch = "a" -> 97
    [] ch = "b" -> 98
    [] ch = "c" -> 99
    [] ch = "d" -> 100
    [] ch = "|" -> 124

IsSpace(ch) == ch = " "

RECURSIVE lstrip(_)
lstrip(s) ==
  IF s = <<>> THEN <<>>
  ELSE IF IsSpace(Head(s)) THEN lstrip(Tail(s)) ELSE s

RECURSIVE rstrip(_)
rstrip(s) ==
  IF s = <<>> THEN <<>>
  ELSE IF IsSpace(s[Len(s)]) THEN rstrip(SubSeq(s, 1, Len(s) - 1)) ELSE s

\* str.strip(): leading and trailing whitespace removed.
strip(s) == rstrip(lstrip(s))

\* Python's str comparison: by code point, a proper prefix first.
RECURSIVE StrLess(_, _)
StrLess(s, t) ==
  IF t = <<>> THEN FALSE
  ELSE IF s = <<>> THEN TRUE
  ELSE IF ord(Head(s)) < ord(Head(t)) THEN TRUE
  ELSE IF ord(Head(s)) > ord(Head(t)) THEN FALSE
  ELSE StrLess(Tail(s), Tail(t))

\* sorted([p1, p2])
sorted2(p1, p2) == IF StrLess(p2, p1) THEN <<p2, p1>> ELSE <<p1, p2>>

\* A make_key that keeps the argument order.
make_key_unsorted(path_a, path_b) == strip(path_a) \o <<"|">> \o strip(path_b)

\* evaluate_small_experiment.make_key
make_key(path_a, path_b) ==
  LET s == sorted2(strip(path_a), strip(path_b))
  IN  s[1] \o <<"|">> \o s[2]

\* analyze_results.main.make_key (takes the row)
make_key_row(row) ==
  LET p1 == strip(row.path_a)
      p2 == strip(row.path_b)
      s  == sorted2(p1, p2)
  IN  s[1] \o <<"|">> \o s[2]

KeyOf(scr, pa, pb) ==
  IF scr = "evaluate" THEN make_key(pa, pb)
  ELSE make_key_row([path_a |-> pa, path_b |-> pb])

(* ----------------------- the key specifications ----------------------- *)
KeyAlphabet == {" ", "a", "b", "|"}

\* The path fields of a row: read_csv reads an empty field as a missing value,
\* which str() makes "nan", so a field is never the empty string before strip().
Strings == UNION {[1..k -> KeyAlphabet] : k \in 1..MaxLen}

\* Whitespace added in front of and behind a string.
Padded(s) == {l \o s \o r : l \in {<<>>, <<" ">>}, r \in {<<>>, <<" ">>}}

Scripts == {"evaluate", "analyze"}

PipeIdle ==
  /\ gold = <<>> /\ system = <<>> /\ merged = <<>> /\ table_rows = <<>>
  /\ curve = <<>> /\ best = <<>> /\ cutoffs = <<>> /\ buckets = <<>>
  /\ report = <<>>

\* Four arbitrary path strings: two pairs whose keys are compared.
InitKey ==
  /\ script \in Scripts
  /\ pc = "pairs"
  /\ ka \in Strings /\ kb \in Strings /\ kc \in Strings /\ kd \in Strings
  /\ key1 = <<>> /\ key2 = <<>>
  /\ PipeIdle

\* A pair and the same pair with its arguments swapped or padded.
InitSym ==
  /\ script \in Scripts
  /\ pc = "pairs"
  /\ ka \in Strings /\ kb \in Strings
  /\ \E sw \in BOOLEAN :
       /\ kc \in Padded(IF sw THEN kb ELSE ka)
       /\ kd \in Padded(IF sw THEN ka ELSE kb)
  /\ key1 = <<>> /\ key2 = <<>>
  /\ PipeIdle

KeyPairs ==
  /\ pc = "pairs"
  /\ key1' = KeyOf(script, ka, kb)
  /\ key2' = KeyOf(script, kc, kd)
  /\ pc' = "compared"
  /\ UNCHANGED <<script, ka, kb, kc, kd>>
  /\ UNCHANGED pipeVars

NextKey == KeyPairs

SpecKey == InitKey /\ [][NextKey]_vars

SpecSym == InitSym /\ [][NextKey]_vars

(* ----------------------------- quotients ------------------------------ *)
RECURSIVE Gcd(_, _)
Gcd(x, y) == IF y = 0 THEN x ELSE Gcd(y, x % y)

Abs(x) == IF x < 0 THEN -x ELSE x

\* n/d in lowest terms, d > 0.
Rat(n, d) ==
  LET g == Gcd(Abs(n), d)
  IN  IF n = 0 THEN <<0, 1>> ELSE <<n \div g, d \div g>>

RInt(n) == <<n, 1>>
RAdd(x, y) == Rat(x[1] * y[2] + y[1] * x[2], x[2] * y[2])
RSub(x, y) == Rat(x[1] * y[2] - y[1] * x[2], x[2] * y[2])
RMul(x, y) == Rat(x[1] * y[1], x[2] * y[2])
RDiv(x, y) == Rat(x[1] * y[2], x[2] * y[1])
RLess(x, y) == x[1] * y[2] < y[1] * x[2]
RLeq(x, y) == x[1] * y[2] <= y[1] * x[2]
RMax(x, y) == IF RLess(x, y) THEN y ELSE x
RMin(x, y) == IF RLess(y, x) THEN y ELSE x
RSign(x) == IF x[1] > 0 THEN 1 ELSE IF x[1] < 0 THEN -1 ELSE 0

(* ------------------------------ tables -------------------------------- *)
\* The missing value a left join leaves where no right row matches.
NaN == -1

\* DataFrame.head(n)
head(rows, n) == SubSeq(rows, 1, IF n < Len(rows) THEN n ELSE Len(rows))

Column(rows, f) == [i \in 1..Len(rows) |-> rows[i][f]]

Range(f) == {f[i] : i \in DOMAIN f}

Count(S) == Cardinality(S)

RECURSIVE SumSeq(_)
SumSeq(xs) == IF xs = <<>> THEN 0 ELSE Head(xs) + SumSeq(Tail(xs))

MinOf(S) == CHOOSE x \in S : \A y \in S : x <= y

RECURSIVE SetToAsc(_)
SetToAsc(S) ==
  IF S = {} THEN <<>>
  ELSE LET m == MinOf(S) IN <<m>> \o SetToAsc(S \ {m})

\* The rows at the given positions, in order (a boolean-mask selection).
RowsAt(rows, keep) ==
  LET idx == SetToAsc(keep)
  IN  [n \in 1..Len(idx) |-> rows[idx[n]]]

RECURSIVE Insert(_, _)
Insert(x, xs) ==
  IF xs = <<>> THEN <<x>>
  ELSE IF x <= Head(xs) THEN <<x>> \o xs
  ELSE <<Head(xs)>> \o Insert(x, Tail(xs))

RECURSIVE SortAsc(_)
SortAsc(xs) == IF xs = <<>> THEN <<>> ELSE Insert(Head(xs), SortAsc(Tail(xs)))

(* ------------------------------- inputs ------------------------------- *)
\* Path pairs of the gold files (kept as read) and of the system output.
GoldPairs == {<< <<"a">>, <<"b">> >>, << <<"c", " ">>, <<"d">> >>}

SysPairs == {<< <<"b">>, <<"a">> >>, << <<"d">>, <<"c">> >>}

\* Scores of the system rows: 1e-6 and 0.01 (a pair no system row scores gets 0.0).
Scores == {1, 10000}

SeqsUpTo(S, lo, hi) == UNION {[1..k -> S] : k \in lo..hi}

GoldRows(pairs, label) ==
  [i \in 1..Len(pairs) |->
     [path_a |-> pairs[i][1], path_b |-> pairs[i][2], label |-> label]]

\* load_gold / load_labeled_pairs: the positive rows, then the negative rows.
load_gold(pos, neg) == GoldRows(pos, 1) \o GoldRows(neg, 0)

SysRows ==
  {[path_a |-> p[1], path_b |-> p[2], score |-> sc] : p \in SysPairs, sc \in Scores}

KeyIdle ==
  /\ ka = <<>> /\ kb = <<>> /\ kc = <<>> /\ kd = <<>>
  /\ key1 = <<>> /\ key2 = <<>>

PipeStart ==
  /\ merged = <<>> /\ table_rows = <<>> /\ curve = <<>> /\ best = <<>>
  /\ cutoffs = <<>> /\ buckets = <<>> /\ report = <<>>

\* evaluate_small_experiment: gold and system as main() holds them after loading.
InitEval ==
  /\ script = "evaluate"
  /\ pc = "loaded"
  /\ \E pos \in SeqsUpTo(GoldPairs, 0, MaxPos), neg \in SeqsUpTo(GoldPairs, 0, MaxNeg) :
       /\ Len(pos) + Len(neg) >= 1
       /\ gold = load_gold(pos, neg)
  /\ system \in SeqsUpTo(SysRows, 0, MaxSys)
  /\ PipeStart
  /\ KeyIdle

\* analyze_results: a loader whose file holds no row returns None and main() returns.
InitAnalyze ==
  /\ script = "analyze"
  /\ pc = "loaded"
  /\ \E pos \in SeqsUpTo(GoldPairs, 1, MaxPos), neg \in SeqsUpTo(GoldPairs, 1, MaxNeg) :
       gold = load_gold(pos, neg)
  /\ system \in SeqsUpTo(SysRows, 1, MaxSys)
  /\ PipeStart
  /\ KeyIdle

(* ------------------------------- merge -------------------------------- *)
WithKey(scr, rows) ==
  [i \in 1..Len(rows) |->
     [f \in DOMAIN rows[i] \cup {"key"} |->
        IF f = "key" THEN KeyOf(scr, rows[i].path_a, rows[i].path_b)
        ELSE rows[i][f]]]

\* system[['key', 'score']]
KeyScore(rows) == [i \in 1..Len(rows) |-> [key |-> rows[i].key, score |-> rows[i].score]]

\* drop_duplicates keeping the last row of each key.
drop_duplicates_last(rows) ==
  LET keep == {i \in 1..Len(rows) : \A j \in (i+1)..Len(rows) : rows[j].key # rows[i].key}
  IN  RowsAt(rows, keep)

\* DataFrame.drop_duplicates('key'): the first row of each key, in order.
drop_duplicates(rows) ==
  LET keep == {i \in 1..Len(rows) : \A j \in 1..(i-1) : rows[j].key # rows[i].key}
  IN  RowsAt(rows, keep)

Scored(row, sc) ==
  [f \in DOMAIN row \cup {"score"} |-> IF f = "score" THEN sc ELSE row[f]]

\* A left join on 'key': every left row in order, once per matching right row,
\* and once with a missing score when no right row matches.
RECURSIVE merge_left(_, _)
merge_left(left, right) ==
  IF left = <<>> THEN <<>>
  ELSE LET row == Head(left)
           hits == RowsAt(right, {j \in 1..Len(right) : right[j].key = row.key})
       IN  (IF hits = <<>> THEN <<Scored(row, NaN)>>
            ELSE [i \in 1..Len(hits) |-> Scored(row, hits[i].score)])
           \o merge_left(Tail(left), right)

\* merged['score'].fillna(0.0)
fillna(rows) ==
  [i \in 1..Len(rows) |-> Scored(rows[i], IF rows[i].score = NaN THEN 0 ELSE rows[i].score)]

\* evaluate_small_experiment.main, the merge
merge_eval(g, s) == fillna(merge_left(g, drop_duplicates(KeyScore(s))))

\* analyze_results.main, the merge
merge_analyze(g, s) == fillna(merge_left(g, KeyScore(s)))

MakeKeys ==
  /\ pc = "loaded"
  /\ gold' = WithKey(script, gold)
  /\ system' = WithKey(script, system)
  /\ pc' = "keyed"
  /\ UNCHANGED <<script, merged, table_rows, curve, best, cutoffs, buckets, report>>
  /\ UNCHANGED keyVars

Merge ==
  /\ pc = "keyed"
  /\ script = "evaluate"
  /\ merged' = merge_eval(gold, system)
  /\ pc' = "merged"
  /\ UNCHANGED <<script, gold, system, table_rows, curve, best, cutoffs, buckets, report>>
  /\ UNCHANGED keyVars

MergeAnalyze ==
  /\ pc = "keyed"
  /\ script = "analyze"
  /\ merged' = merge_analyze(gold, system)
  /\ pc' = "merged"
  /\ UNCHANGED <<script, gold, system, table_rows, curve, best, cutoffs, buckets, report>>
  /\ UNCHANGED keyVars

(* --------------------------- threshold sweep -------------------------- *)
\* thresholds = [0.0001, 0.001, 0.01, 0.05, 0.1]
thresholds == <<100, 1000, 10000, 50000, 100000>>

\* A prediction that needs the score to exceed the threshold.
y_pred_strict(y_scores, t) ==
  [i \in 1..Len(y_scores) |-> IF y_scores[i] > t THEN 1 ELSE 0]

\* (y_scores >= t).astype(int)
y_pred_of(y_scores, t) ==
  [i \in 1..Len(y_scores) |-> IF y_scores[i] >= t THEN 1 ELSE 0]

\* sklearn's counts for the positive class.
tp_sum(y_true, y_pred) ==
  Count({i \in 1..Len(y_true) : y_true[i] = 1 /\ y_pred[i] = 1})
pred_sum(y_pred) == Count({i \in 1..Len(y_pred) : y_pred[i] = 1})
true_sum(y_true) == Count({i \in 1..Len(y_true) : y_true[i] = 1})

\* A quotient that is 0 where the denominator is 0 (zero_division=0).
prf_divide(n, d) == IF d = 0 THEN <<0, 1>> ELSE Rat(n, d)

precision_score(y_true, y_pred) == prf_divide(tp_sum(y_true, y_pred), pred_sum(y_pred))
recall_score(y_true, y_pred) == prf_divide(tp_sum(y_true, y_pred), true_sum(y_true))
f1_score(y_true, y_pred) ==
  prf_divide(2 * tp_sum(y_true, y_pred), true_sum(y_true) + pred_sum(y_pred))

sweep(rows) ==
  LET y_true   == Column(rows, "label")
      y_scores == Column(rows, "score")
  IN  [k \in 1..Len(thresholds) |->
         LET y_pred == y_pred_of(y_scores, thresholds[k])
         IN  [t  |-> thresholds[k],
              p  |-> precision_score(y_true, y_pred),
              r  |-> recall_score(y_true, y_pred),
              f1 |-> f1_score(y_true, y_pred)]]

Sweep ==
  /\ pc = "merged"
  /\ script = "evaluate"
  /\ table_rows' = sweep(merged)
  /\ pc' = "swept"
  /\ UNCHANGED <<script, gold, system, merged, curve, best, cutoffs, buckets, report>>
  /\ UNCHANGED keyVars

(* -------------------------- adaptive cutoffs -------------------------- *)
\* Series.quantile(0.5), linear interpolation, of a non-empty series.
quantile_half(xs) ==
  LET v == SortAsc(xs)
      n == Len(v)
  IN  IF n % 2 = 1 THEN RInt(v[(n + 1) \div 2])
      ELSE Rat(v[n \div 2] + v[n \div 2 + 1], 2)

mean(xs) == Rat(SumSeq(xs), Len(xs))

ScoresOf(rows, label) ==
  Column(RowsAt(rows, {i \in 1..Len(rows) : rows[i].label = label}), "score")

median_high(rows) ==
  IF Len(ScoresOf(rows, 1)) > 0 THEN quantile_half(ScoresOf(rows, 1)) ELSE RInt(10000)

median_low(rows) ==
  IF Len(ScoresOf(rows, 0)) > 0 THEN quantile_half(ScoresOf(rows, 0)) ELSE RInt(1000)

\* A fallback that leaves out the 1e-6 added to the mean.
fallback_high_plain(y_scores) == RMax(RInt(10000), mean(y_scores))

\* max(0.01, y_scores.mean() + 1e-6)
fallback_high(y_scores) == RMax(RInt(10000), RAdd(mean(y_scores), RInt(1)))

\* min(0.01, max(0, y_scores.min()))
fallback_low(y_scores) == RMin(RInt(10000), RMax(RInt(0), RInt(MinOf(Range(y_scores)))))

high_low(rows) ==
  LET h == median_high(rows)
      l == median_low(rows)
      y_scores == Column(rows, "score")
  IN  IF RLeq(h, l)
      THEN [high_thresh |-> fallback_high(y_scores), low_thresh |-> fallback_low(y_scores)]
      ELSE [high_thresh |-> h, low_thresh |-> l]

Flag(b) == IF b THEN "True" ELSE "False"

\* pred_low taken with score < low_thresh.
with_pred_strict(rows, c) ==
  [i \in 1..Len(rows) |->
     [f \in DOMAIN rows[i] \cup {"pred_high", "pred_low"} |->
        IF f = "pred_high" THEN Flag(RLeq(c.high_thresh, RInt(rows[i].score)))
        ELSE IF f = "pred_low" THEN Flag(RLess(RInt(rows[i].score), c.low_thresh))
        ELSE rows[i][f]]]

\* merged['pred_high'], merged['pred_low']
with_pred(rows, c) ==
  [i \in 1..Len(rows) |->
     [f \in DOMAIN rows[i] \cup {"pred_high", "pred_low"} |->
        IF f = "pred_high" THEN Flag(RLeq(c.high_thresh, RInt(rows[i].score)))
        ELSE IF f = "pred_low" THEN Flag(RLeq(RInt(rows[i].score), c.low_thresh))
        ELSE rows[i][f]]]

Cutoffs ==
  /\ pc = "swept"
  /\ cutoffs' = high_low(merged)
  /\ merged' = with_pred(merged, high_low(merged))
  /\ pc' = "cut"
  /\ UNCHANGED <<script, gold, system, table_rows, curve, best, buckets, report>>
  /\ UNCHANGED keyVars

(* ---------------------------- error buckets --------------------------- *)
\* The rows take5 keeps, and below which the FP bucket is padded.
SampleSize == 5

\* The placeholder score 1e-6.
Placeholder == 1

Select(rows, label, flag) ==
  RowsAt(rows, {i \in 1..Len(rows) : rows[i].label = label /\ rows[i][flag] = "True"})

tp_of(rows) == Select(rows, 1, "pred_high")
tn_of(rows) == Select(rows, 0, "pred_low")
fn_of(rows) == Select(rows, 1, "pred_low")

\* merged[(merged['label'] == 0) & (merged['score'] > 0)]
fp_genuine(rows) ==
  RowsAt(rows, {i \in 1..Len(rows) : rows[i].label = 0 /\ rows[i].score > 0})

Narrow(row) ==
  [f \in {"path_a", "path_b", "label", "score", "key"} |-> row[f]]

\* Every row of merged, whatever its label, narrowed to the five columns.
gold_neg_any(rows) == [i \in 1..Len(rows) |-> Narrow(rows[i])]

\* merged[merged['label'] == 0][['path_a', 'path_b', 'label', 'score', 'key']]
gold_neg_of(rows) ==
  LET neg == RowsAt(rows, {i \in 1..Len(rows) : rows[i].label = 0})
  IN  [i \in 1..Len(neg) |-> Narrow(neg[i])]

\* extra: the first gold negatives whose key no genuine FP has, a score of 0.0
\* replaced by 1e-6; concat leaves their pred_high and pred_low missing.
extra_of(rows, fp) ==
  LET gold_neg == gold_neg_of(rows)
      fp_keys  == {fp[i].key : i \in 1..Len(fp)}
      rest     == RowsAt(gold_neg, {i \in 1..Len(gold_neg) : gold_neg[i].key \notin fp_keys})
      extra    == head(rest, SampleSize - Len(fp))
  IN  [i \in 1..Len(extra) |->
         [f \in DOMAIN extra[i] \cup {"pred_high", "pred_low"} |->
            IF f \in {"pred_high", "pred_low"} THEN "NaN"
            ELSE IF f = "score" THEN (IF extra[i].score = 0 THEN Placeholder ELSE extra[i].score)
            ELSE extra[i][f]]]

fp_of(rows) ==
  LET fp == fp_genuine(rows)
  IN  IF Len(fp) < SampleSize THEN head(fp \o extra_of(rows, fp), SampleSize) ELSE fp

stratify(rows) ==
  [tp |-> tp_of(rows), fp |-> fp_of(rows), tn |-> tn_of(rows), fn |-> fn_of(rows)]

Stratify ==
  /\ pc = "cut"
  /\ buckets' = stratify(merged)
  /\ pc' = "stratified"
  /\ UNCHANGED <<script, gold, system, merged, table_rows, curve, best, cutoffs, report>>
  /\ UNCHANGED keyVars

(* ------------------------------- report ------------------------------- *)
take5(df) ==
  LET n == IF Len(df) < SampleSize THEN Len(df) ELSE SampleSize
  IN  IF n = 0 THEN <<>>
      ELSE IF Len(df) >= SampleSize THEN head(df, SampleSize) ELSE head(df, n)

\* md_table: the columns path_a, path_b, label, score of each row.
md_table(df) ==
  [i \in 1..Len(df) |-> <<df[i].path_a, df[i].path_b, df[i].label, df[i].score>>]

report_of(b) ==
  [tp |-> md_table(take5(b.tp)), fp |-> md_table(take5(b.fp)),
   tn |-> md_table(take5(b.tn)), fn |-> md_table(take5(b.fn))]

Report ==
  /\ pc = "stratified"
  /\ report' = report_of(buckets)
  /\ pc' = "done"
  /\ UNCHANGED <<script, gold, system, merged, table_rows, curve, best, cutoffs, buckets>>
  /\ UNCHANGED keyVars

(* ----------------------- precision-recall curve ----------------------- *)
\* sklearn.metrics.precision_recall_curve: one point per distinct score, by
\* increasing threshold, then the point (precision 1, recall 0).
precision_recall_curve(y_true, y_scores) ==
  LET ths   == SetToAsc(Range(y_scores))
      tps(t) == Count({i \in 1..Len(y_true) : y_true[i] = 1 /\ y_scores[i] >= t})
      fps(t) == Count({i \in 1..Len(y_true) : y_true[i] # 1 /\ y_scores[i] >= t})
      total == true_sum(y_true)
  IN  [precision  |-> [k \in 1..Len(ths) |-> Rat(tps(ths[k]), tps(ths[k]) + fps(ths[k]))]
                        \o <<RInt(1)>>,
       recall     |-> [k \in 1..Len(ths) |->
                         IF total = 0 THEN RInt(1) ELSE Rat(tps(ths[k]), total)]
                        \o <<RInt(0)>>,
       thresholds |-> ths]

\* 2 * (precision[:-1] * recall[:-1]) / (precision[:-1] + recall[:-1] + 1e-10):
\* each value is kept as its numerator and its denominator without the 1e-10.
f1_scores_of(c) ==
  [k \in 1..(Len(c.precision) - 1) |->
     [num |-> RMul(RInt(2), RMul(c.precision[k], c.recall[k])),
      den |-> RAdd(c.precision[k], c.recall[k])]]

\* The sign of x.num/(x.den + e) - y.num/(y.den + e) for e = 1e-10, which is the
\* sign of d1 + e*d2 with d1 = x.num*y.den - y.num*x.den and d2 = x.num - y.num.
\* d1 and d2 are quotients of integers below 2^31 < 1e10, so a non-zero d1
\* outweighs e*d2 and decides the sign; d2 decides it when d1 = 0.
F1Cmp(x, y) ==
  LET d1 == RSub(RMul(x.num, y.den), RMul(y.num, x.den))
      d2 == RSub(x.num, y.num)
  IN  IF RSign(d1) # 0 THEN RSign(d1) ELSE RSign(d2)

\* An argmax that returns the last index of the maximum.
argmax_last(xs) ==
  CHOOSE i \in 1..Len(xs) :
    /\ \A j \in 1..Len(xs) : F1Cmp(xs[j], xs[i]) <= 0
    /\ \A j \in (i+1)..Len(xs) : F1Cmp(xs[j], xs[i]) < 0

\* ndarray.argmax(): the first index of the maximum (counted from 1 here).
argmax(xs) ==
  CHOOSE i \in 1..Len(xs) :
    /\ \A j \in 1..Len(xs) : F1Cmp(xs[j], xs[i]) <= 0
    /\ \A j \in 1..(i-1) : F1Cmp(xs[j], xs[i]) < 0

best_of(c) ==
  LET f1_scores == f1_scores_of(c)
      best_idx  == argmax(f1_scores)
  IN  [best_idx    |-> best_idx,
       best_f1     |-> f1_scores[best_idx],
       best_thresh |-> IF best_idx <= Len(c.thresholds) THEN c.thresholds[best_idx]
                       ELSE 500000]

CurveBest ==
  /\ pc = "merged"
  /\ script = "analyze"
  /\ curve' = precision_recall_curve(Column(merged, "label"), Column(merged, "score"))
  /\ best' = best_of(precision_recall_curve(Column(merged, "label"), Column(merged, "score")))
  /\ pc' = "done"
  /\ UNCHANGED <<script, gold, system, merged, table_rows, cutoffs, buckets, report>>
  /\ UNCHANGED keyVars

(* --------------------------- specifications --------------------------- *)
NextEval == MakeKeys \/ Merge \/ Sweep \/ Cutoffs \/ Stratify \/ Report

NextAnalyze == MakeKeys \/ MergeAnalyze \/ CurveBest

Init == InitEval \/ InitAnalyze

Next == NextEval \/ NextAnalyze

Spec == Init /\ [][Next]_vars

SpecEval == InitEval /\ [][NextEval]_vars

SpecAnalyze == InitAnalyze /\ [][NextAnalyze]_vars

(* ------------------------------- claims ------------------------------- *)
AfterMerge == pc \in {"merged", "swept", "cut", "stratified", "done"}

AfterCut == pc \in {"cut", "stratified", "done"}

AfterStratify == pc \in {"stratified", "done"}

\* C1: in both scripts the merged table has exactly as many records as the
\* gold sequence.
MergeComplete == AfterMerge => Len(merged) = Len(gold)

\* The positions of the system rows whose canonical key is that of the gold row.
Matches(g) ==
  {j \in 1..Len(system) :
     make_key(system[j].path_a, system[j].path_b) = make_key(g.path_a, g.path_b)}

\* C5: evaluate_small_experiment: each gold pair's merged record carries the
\* score of the first system record with the pair's key, 0.0 when there is
\* none, and the gold pair's label.
MergeScoreLaw ==
  (script = "evaluate" /\ AfterMerge) =>
     /\ Len(merged) = Len(gold)
     /\ \A i \in 1..Len(gold) :
          /\ merged[i].label = gold[i].label
          /\ merged[i].path_a = gold[i].path_a /\ merged[i].path_b = gold[i].path_b
          /\ merged[i].score =
               IF Matches(gold[i]) = {} THEN 0 ELSE system[MinOf(Matches(gold[i]))].score

\* A gold pair two system records with different scores match, beside a gold
\* pair no system record matches.
MergeScoreLawWitness ==
  /\ script = "evaluate" /\ pc = "merged"
  /\ \E i \in 1..Len(gold) :
       \E j \in Matches(gold[i]), k \in Matches(gold[i]) :
          j < k /\ system[j].score # system[k].score
  /\ \E i \in 1..Len(gold) : Matches(gold[i]) = {}

\* The counts of the claim, from the records and the threshold.
TPat(t) == Count({i \in 1..Len(merged) : merged[i].label = 1 /\ merged[i].score >= t})
FPat(t) == Count({i \in 1..Len(merged) : merged[i].label = 0 /\ merged[i].score >= t})
FNat(t) == Count({i \in 1..Len(merged) : merged[i].label = 1 /\ ~(merged[i].score >= t)})
Pat(t) == IF TPat(t) + FPat(t) = 0 THEN RInt(0) ELSE Rat(TPat(t), TPat(t) + FPat(t))
Rat_(t) == IF TPat(t) + FNat(t) = 0 THEN RInt(0) ELSE Rat(TPat(t), TPat(t) + FNat(t))
Fat(t) ==
  IF RAdd(Pat(t), Rat_(t)) = RInt(0) THEN RInt(0)
  ELSE RDiv(RMul(RInt(2), RMul(Pat(t), Rat_(t))), RAdd(Pat(t), Rat_(t)))

\* C8: at every threshold of the sweep, with predicted label = (score >= t),
\* precision = TP/(TP+FP) (0 when TP+FP = 0), recall = TP/(TP+FN) (0 when
\* TP+FN = 0) and F1 = 2PR/(P+R) (0 when both are 0); every threshold has a row.
SweepMetrics ==
  (script = "evaluate" /\ pc \in {"swept", "cut", "stratified", "done"}) =>
     /\ Len(table_rows) = Len(thresholds)
     /\ \A k \in 1..Len(thresholds) :
          /\ table_rows[k].t = thresholds[k]
          /\ table_rows[k].p = Pat(thresholds[k])
          /\ table_rows[k].r = Rat_(thresholds[k])
          /\ table_rows[k].f1 = Fat(thresholds[k])

\* A sweep with a score equal to a threshold, a threshold no score reaches and
\* a threshold with a positive F1 below 1.
SweepMetricsWitness ==
  /\ script = "evaluate" /\ pc = "swept"
  /\ \E i \in 1..Len(merged), k \in 1..Len(thresholds) : merged[i].score = thresholds[k]
  /\ \E k \in 1..Len(thresholds) : TPat(thresholds[k]) + FPat(thresholds[k]) = 0
  /\ \E k \in 1..Len(thresholds) :
       RLess(RInt(0), table_rows[k].f1) /\ RLess(table_rows[k].f1, RInt(1))

\* The degenerate sweeps: every label 0, or every label 1.
SweepDegenerateWitness ==
  /\ script = "evaluate" /\ pc = "swept"
  /\ \/ \A i \in 1..Len(merged) : merged[i].label = 0
     \/ \A i \in 1..Len(merged) : merged[i].label = 1

\* C10: once the adaptive thresholds are computed, high_thresh > low_thresh,
\* and no label=1 record meets both the TP and the FN condition.
ThresholdSeparation ==
  (script = "evaluate" /\ AfterCut) =>
     /\ RLess(cutoffs.low_thresh, cutoffs.high_thresh)
     /\ \A i \in 1..Len(merged) :
          ~(merged[i].label = 1 /\ merged[i].pred_high = "True"
              /\ merged[i].pred_low = "True")
     /\ AfterStratify =>
          \A i \in 1..Len(buckets.tp), j \in 1..Len(buckets.fn) :
             buckets.tp[i] # buckets.fn[j]

\* Both classes present and the median of the positives not above that of the
\* negatives: the thresholds come from the mean/min recomputation.
ThresholdSeparationWitness ==
  /\ script = "evaluate" /\ pc = "cut"
  /\ Len(ScoresOf(merged, 1)) > 0 /\ Len(ScoresOf(merged, 0)) > 0
  /\ RLeq(median_high(merged), median_low(merged))
  /\ cutoffs.low_thresh = RInt(10000)

\* C9: TP and FN rows have label 1; FP rows (genuine or padded) and TN rows
\* have label 0.
BucketLabels ==
  (script = "evaluate" /\ AfterStratify) =>
     /\ \A i \in 1..Len(buckets.tp) : buckets.tp[i].label = 1
     /\ \A i \in 1..Len(buckets.fn) : buckets.fn[i].label = 1
     /\ \A i \in 1..Len(buckets.fp) : buckets.fp[i].label = 0
     /\ \A i \in 1..Len(buckets.tn) : buckets.tn[i].label = 0

\* An FP bucket with a genuine and a padded row, beside positives in the table.
BucketLabelsWitness ==
  /\ script = "evaluate" /\ pc = "stratified"
  /\ \E i \in 1..Len(buckets.fp) : buckets.fp[i].pred_high = "NaN"
  /\ \E i \in 1..Len(buckets.fp) : buckets.fp[i].pred_high # "NaN"
  /\ buckets.tp # <<>> /\ buckets.fn # <<>> /\ buckets.tn # <<>>

\* Whether a bucket holds a row for the gold pair of the merged record.
InBucket(b, row) ==
  \E j \in 1..Len(b) :
     b[j].path_a = row.path_a /\ b[j].path_b = row.path_b /\ b[j].label = row.label

ZeroNegatives == {i \in 1..Len(merged) : merged[i].label = 0 /\ merged[i].score = 0}

\* C4 as claimed: a gold negative with merged score 0.0 is in the TN bucket and
\* in neither the FP nor the TP bucket.
ZeroNegativeOnlyTN ==
  (script = "evaluate" /\ AfterStratify) =>
     \A i \in ZeroNegatives :
        /\ InBucket(buckets.tn, merged[i])
        /\ ~InBucket(buckets.fp, merged[i])
        /\ ~InBucket(buckets.tp, merged[i])

\* C4 as amended: a gold negative with merged score 0.0 is in the TN bucket and
\* not in the TP bucket, and is no genuine FP: a row of the FP bucket for it is
\* a padded one, with the placeholder score 1e-6, behind fewer than 5 genuine
\* false positives.
ZeroNegativeTNOrPadding ==
  (script = "evaluate" /\ AfterStratify) =>
     \A i \in ZeroNegatives :
        /\ InBucket(buckets.tn, merged[i])
        /\ ~InBucket(buckets.tp, merged[i])
        /\ \A j \in 1..Len(buckets.fp) :
             (/\ buckets.fp[j].path_a = merged[i].path_a
              /\ buckets.fp[j].path_b = merged[i].path_b) =>
                /\ buckets.fp[j].score = Placeholder
                /\ buckets.fp[j].pred_high = "NaN"
                /\ Len(fp_genuine(merged)) < SampleSize
                /\ j > Len(fp_genuine(merged))

\* A gold negative with score 0.0 that the padding brought into the FP bucket,
\* behind a genuine false positive.
ZeroNegativeWitness ==
  /\ script = "evaluate" /\ pc = "stratified"
  /\ \E i \in ZeroNegatives : InBucket(buckets.fp, merged[i])
  /\ fp_genuine(merged) # <<>>

\* The report of evaluate_small_experiment for a gold and a system table.
MergedOf(g, s) ==
  LET m == merge_eval(WithKey("evaluate", g), WithKey("evaluate", s))
  IN  with_pred(m, high_low(m))

ReportOf(g, s) == report_of(stratify(MergedOf(g, s)))

\* The rows of the reported FP bucket that are genuine false positives.
GenuineRows(m) ==
  1..(IF Len(fp_genuine(m)) < SampleSize THEN Len(fp_genuine(m)) ELSE SampleSize)

\* The inputs of InitEval.
EvalInputs ==
  {in \in {<<load_gold(pos, neg), s>> :
             pos \in SeqsUpTo(GoldPairs, 0, MaxPos), neg \in SeqsUpTo(GoldPairs, 0, MaxNeg),
             s \in SeqsUpTo(SysRows, 0, MaxSys)} : Len(in[1]) >= 1}

\* C7: no reported FP row is a genuine false positive for one input and a
\* padded entry for another.
PaddedDistinguishable ==
  (script = "evaluate" /\ pc = "done" /\ report.fp # <<>>) =>
     \A in2 \in EvalInputs :
        LET fp2 == ReportOf(in2[1], in2[2]).fp
            gen2 == GenuineRows(MergedOf(in2[1], in2[2]))
        IN  \A i \in 1..Len(report.fp), j \in 1..Len(fp2) :
               report.fp[i] = fp2[j] => (i \in GenuineRows(merged) <=> j \in gen2)

\* The curve's F1 at a threshold, 2PR/(P+R), 0 where P+R = 0.
CurveF1(k) ==
  LET s == RAdd(curve.precision[k], curve.recall[k])
  IN  IF s = RInt(0) THEN RInt(0)
      ELSE RDiv(RMul(RInt(2), RMul(curve.precision[k], curve.recall[k])), s)

Points == 1..Len(curve.thresholds)

KeyInjective ==
  (pc = "compared" /\ key1 = key2) =>
     {strip(ka), strip(kb)} = {strip(kc), strip(kd)}

\* C6: make_key(a, b) = make_key(b, a), and whitespace added around either
\* argument leaves the key unchanged.
KeySymmetry ==
  (pc = "compared"
     /\ \/ strip(kc) = strip(ka) /\ strip(kd) = strip(kb)
        \/ strip(kc) = strip(kb) /\ strip(kd) = strip(ka)) =>
     key1 = key2

\* A pair of different paths, swapped and padded, with the second path first
\* in the order.
KeySymmetryWitness ==
  /\ pc = "compared"
  /\ StrLess(strip(kb), strip(ka))
  /\ strip(kc) = strip(kb) /\ strip(kd) = strip(ka)
  /\ kc # kb /\ kd # ka
  /\ ka # strip(ka)

====
